---- MODULE Spec2Model ----
(***************************************************************************)
(* WEmbed: content-addressed file ingestion (file_processor.py), the      *)
(* processing queue (db/input_record.py) and the convert -> chunk -> embed *)
(* pipeline (dl_doc_processor.py), against one relational store.           *)
(***************************************************************************)
EXTENDS Integers, Sequences, FiniteSets, TLC

\* ------------------------------------------------------------------ bounds
NumContents == 2      \* distinct byte contents a file can hold
MaxChunks == 2        \* longest chunk sequence the Chunker emits
MaxRuns == 2          \* top-level pipeline commands issued in one behaviour
MaxApiOps == 5        \* repository calls issued in one behaviour of SpecQueue

\* ------------------------------------------------------- program constants
MAX_PROCESSING_SIZE == 3          \* dl_doc_processor.py: 3 MB, in MB units
NoId == 0                         \* None in an Optional[int] id column
NoTime == 0                       \* None in an Optional[datetime] column

NoFile == 0                       \* the path holds no regular file
Contents == 1..NumContents
Host == "COMPUTERNAME"
RepoFiles == <<"repo/a", "repo/b">>     \* RepoRecord.files, in stored order
VaultFiles == <<"vault/n">>             \* VaultRecord.files, in stored order
Paths == {RepoFiles[i] : i \in DOMAIN RepoFiles} \cup {VaultFiles[i] : i \in DOMAIN VaultFiles}

\* Path.suffix of a tracked file: the vault holds notes, the repo Python files.
Suffix(p) == IF p \in {VaultFiles[i] : i \in DOMAIN VaultFiles} THEN ".md" ELSE ".py"

\* Size in MB of a file holding content c: content 1 stands for a file just
\* over the processing limit, every other content for a small file.
SizeOf(c) == IF c = 1 THEN MAX_PROCESSING_SIZE + 1 ELSE 1

\* hashlib.sha256(content).hexdigest(): a digest, distinct for distinct bytes.
Sha256(c) == <<"sha256", c>>

\* ---------------------------------------------------------------- strings
\* A string is a sequence of atoms; NL is the newline character, every other
\* atom a newline-free piece of text.
NL == "\n"
None == <<"None">>                \* None in an Optional[str] column
Truthy(s) == s # None /\ s # <<>>

VARIABLES
  fs,          \* filesystem: path -> content, or NoFile
  unwritable,  \* paths whose rendering cannot be written into the vault tree
  swept,       \* history: paths a sweep has visited since they were last written
  sweeps,      \* frames of the file sweeps that run as processes of their own
  tree,        \* scanner: the files present under each scanned root
  git,         \* scanner: whether `git ls-files` works in each root
  scanned,     \* scanner: the last scan, its arguments and its results
  records,     \* the dl_scan_results, dl_repo and dl_vault rows
  rendered,    \* the renderings made of stored file records after their creation
  vault,       \* the markdown vault tree: per source path, the rendering last written
  xref,        \* the rows that record a rendering: dl_document_index and md_xref
  sessions,    \* the get_session calls made so far, each with its outcome
  backend,     \* the database the session is bound to
  schema,      \* the DB_INIT flag, and the databases that hold the tables
  files,       \* dl_files rows, in insertion order
  inputs,      \* dl_inputs rows; the id is the position (autoincrement)
  docs,        \* dl_documents rows; the id is the position (autoincrement)
  chunks,      \* dl_chunks rows; the id is the position (autoincrement)
  collection,  \* ids stored in the chunk_embeddings vector collection
  clock,       \* logical time: pipeline commands started so far
  pc,          \* where the (single) pipeline process stands
  ppi,         \* frame of process_pending_inputs
  pfr,         \* frame of process_file_record
  cs,          \* frame of convert_source
  ret          \* the call that returned last, with its result

vars == <<fs, unwritable, swept, sweeps, tree, git, scanned, records, rendered, vault, xref, sessions, backend, schema, files, inputs, docs, chunks, collection, clock, pc, ppi, pfr, cs, ret>>
store == <<files, inputs, docs, chunks, collection>>
frames == <<pc, ppi, pfr, cs, ret>>
scanner == <<tree, git, scanned>>
services == <<records, rendered, sessions, backend, schema>>
rendering == <<vault, xref>>

\* ------------------------------------------------------------ file records
\* app_config.md_xref: the fence language of a suffix.
md_xref == [s \in {".py", ".md"} |-> IF s = ".py" THEN "python" ELSE "markdown"]

\* dict.get(key, "")
Get(d, key) == IF key \in DOMAIN d THEN d[key] ELSE ""

\* A rendering that stamps the page with the time of the rendering.
generate_markdown_content_stamped(rec) ==
  <<"md", rec.id, rec.host, rec.sha256, rec.source_type, rec.version,
    rec.path, rec.size, Get(md_xref, rec.suffix), clock>>

\* generate_markdown_content: the front matter, the property table and the
\* fenced content, all of them fields of the record, and the fence language
\* the suffix has in app_config.md_xref.
generate_markdown_content(rec) ==
  <<"md", rec.id, rec.host, rec.sha256, rec.source_type, rec.version,
    rec.path, rec.size, Get(md_xref, rec.suffix)>>

\* A lookup that never finds the digest.
get_by_sha256_never(fileRows, sha) == NoId

\* FileRecordCRUD.get_by_sha256: the first row with that digest, or none.
get_by_sha256(fileRows, sha) ==
  LET hit == {i \in DOMAIN fileRows : fileRows[i].sha256 = sha}
  IN IF hit = {} THEN NoId ELSE CHOOSE i \in hit : \A j \in hit : i <= j

\* create_file_record_from_path: the schema for the bytes now at the path;
\* the version is the literal 1.
create_file_record_from_path(fileRows, p, c, source_type) ==
  [id |-> Len(fileRows) + 1, version |-> 1, source_type |-> source_type,
   host |-> Host, path |-> p, suffix |-> Suffix(p), sha256 |-> Sha256(c),
   size |-> SizeOf(c), markdown |-> None]

\* InputRecordRepo.create of the schema the sweep builds: status "pending",
\* nothing else set.
NewInputRecord(source_type, file_id) ==
  [source_type |-> source_type, status |-> "pending", errors |-> None,
   processed |-> FALSE, processed_at |-> NoTime, output_doc_id |-> NoId,
   input_file_id |-> file_id]

\* write_markdown_to_vault: the rendering replaces whatever the vault held for
\* that source path.
write_markdown_to_vault(vaultTree, row, now) ==
  [vaultTree EXCEPT ![row.path] = [sha256 |-> row.sha256, markdown |-> row.markdown,
                              written |-> now]]

\* DocumentIndexRepo.create of DocumentIndexSchema(file_id, last_rendered=now).
NewDocumentIndex(fid, now) ==
  [table |-> "dl_document_index", key |-> fid, last_rendered |-> now]

\* One iteration of the sweep's loop body for path p;
\* st = [files, inputs, processed_count, error_count].
\* A missing file: the repo sweep finds no file record to create and goes on;
\* the vault sweep reads the bytes first, and the read raises. An unwritable
\* target: write_markdown_to_vault raises after the FileRecord is committed.
\* Every exception is caught per file and counted.
ProcessOneFile(st, p, source_type) ==
  LET c == fs[p] IN
  IF c = NoFile
  THEN IF source_type = "vault" THEN [st EXCEPT !.error_count = @ + 1] ELSE st
  ELSE IF get_by_sha256(st.files, Sha256(c)) # NoId THEN st  \* already processed
  ELSE LET rec == create_file_record_from_path(st.files, p, c, source_type)
           row == [rec EXCEPT !.markdown = generate_markdown_content(rec)]
           withFile == [st EXCEPT !.files = Append(st.files, row)]
       IN IF p \in unwritable THEN [withFile EXCEPT !.error_count = @ + 1]
          ELSE [withFile EXCEPT
                  !.vault = write_markdown_to_vault(st.vault, row, clock),
                  !.xref = Append(st.xref, NewDocumentIndex(row.id, clock)),
                  !.inputs = Append(st.inputs, NewInputRecord(source_type, row.id)),
                  !.processed_count = @ + 1]

RECURSIVE SweepFiles(_, _, _)
SweepFiles(st, list, source_type) ==
  IF list = <<>> THEN st
  ELSE SweepFiles(ProcessOneFile(st, Head(list), source_type), Tail(list), source_type)

SweepStart == [files |-> files, inputs |-> inputs, vault |-> vault, xref |-> xref,
               processed_count |-> 0, error_count |-> 0]
Range(list) == {list[i] : i \in DOMAIN list}

\* process_repo_files: one whole sweep over the repo records' files.
process_repo_files ==
  /\ pc = "idle"
  /\ LET st == SweepFiles(SweepStart, RepoFiles, "repo")
     IN /\ files' = st.files
        /\ inputs' = st.inputs
        /\ vault' = st.vault
        /\ xref' = st.xref
        /\ ret' = [op |-> "process_repo_files", processed |-> st.processed_count,
                   errors |-> st.error_count]
  /\ swept' = swept \cup Range(RepoFiles)
  /\ UNCHANGED <<fs, unwritable, sweeps, scanner, services, docs, chunks, collection, clock, pc, ppi, pfr, cs>>

\* process_vault_files: one whole sweep over the vault records' files.
process_vault_files ==
  /\ pc = "idle"
  /\ LET st == SweepFiles(SweepStart, VaultFiles, "vault")
     IN /\ files' = st.files
        /\ inputs' = st.inputs
        /\ vault' = st.vault
        /\ xref' = st.xref
        /\ ret' = [op |-> "process_vault_files", processed |-> st.processed_count,
                   errors |-> st.error_count]
  /\ swept' = swept \cup Range(VaultFiles)
  /\ UNCHANGED <<fs, unwritable, sweeps, scanner, services, docs, chunks, collection, clock, pc, ppi, pfr, cs>>

\* The environment writes, replaces or removes a file between commands.
WriteFile ==
  /\ pc = "idle"
  /\ \E p \in Paths, c \in Contents \cup {NoFile} :
       /\ fs[p] # c
       /\ fs' = [fs EXCEPT ![p] = c]
       /\ swept' = swept \ {p}
  /\ ret' = [op |-> "none"]
  /\ UNCHANGED <<unwritable, sweeps, scanner, services, rendering, store, clock, pc, ppi, pfr, cs>>

NoFrame == [op |-> "none"]

\* The sweep processes, and a sweep that has not started.
Workers == {"w1", "w2"}
IdleSweep == [pc |-> "idle", k |-> 0, c |-> NoFile, seen |-> 0, made |-> {}]

\* ------------------------------------------------------- the error log text
RECURSIVE Split(_)
\* str.split("\n")
Split(s) ==
  LET nl == {k \in DOMAIN s : s[k] = NL}
  IN IF nl = {} THEN <<s>>
     ELSE LET k == CHOOSE x \in nl : \A y \in nl : x <= y
          IN <<SubSeq(s, 1, k - 1)>> \o Split(SubSeq(s, k + 1, Len(s)))

RECURSIVE Join(_)
\* "\n".join(list)
Join(l) ==
  IF l = <<>> THEN <<>>
  ELSE IF Len(l) = 1 THEN l[1]
  ELSE l[1] \o <<NL>> \o Join(Tail(l))

\* -------------------------------------------------- InputRecordRepo (queue)
\* InputRecordRepo.get_by_id: the row's id, or none.
get_by_id(rows, id) == IF id \in DOMAIN rows THEN id ELSE NoId

\* mark_processed that leaves the status as it was.
mark_processed_keeps_status(rows, input_id, output_doc_id, now) ==
  IF input_id \notin DOMAIN rows THEN rows
  ELSE [rows EXCEPT ![input_id] =
          [@ EXCEPT !.processed = TRUE,
                    !.processed_at = now,
                    !.output_doc_id = IF output_doc_id # NoId THEN output_doc_id ELSE @]]

\* mark_processed that never stores the output reference.
mark_processed_unlinked(rows, input_id, output_doc_id, now) ==
  IF input_id \notin DOMAIN rows THEN rows
  ELSE [rows EXCEPT ![input_id] =
          [@ EXCEPT !.processed = TRUE,
                    !.processed_at = now,
                    !.status = "processed"]]

\* InputRecordRepo.mark_processed: the rows after the call's commit.
mark_processed(rows, input_id, output_doc_id, now) ==
  IF get_by_id(rows, input_id) = NoId THEN rows
  ELSE [rows EXCEPT ![input_id] =
          [@ EXCEPT !.processed = TRUE,
                    !.processed_at = now,
                    !.status = "processed",
                    !.output_doc_id = IF output_doc_id # NoId THEN output_doc_id ELSE @]]

\* add_error that puts the new message in front of the recorded ones.
add_error_prepends(rows, input_id, error) ==
  IF input_id \notin DOMAIN rows THEN rows
  ELSE LET existing_errors == IF Truthy(rows[input_id].errors)
                              THEN Split(rows[input_id].errors) ELSE <<>>
       IN [rows EXCEPT ![input_id] =
             [@ EXCEPT !.errors = Join(<<error>> \o existing_errors),
                       !.status = "error"]]

\* InputRecordRepo.add_error: the rows after the call's commit.
add_error(rows, input_id, error) ==
  IF get_by_id(rows, input_id) = NoId THEN rows
  ELSE LET existing_errors == IF Truthy(rows[input_id].errors)
                              THEN Split(rows[input_id].errors) ELSE <<>>
       IN [rows EXCEPT ![input_id] =
             [@ EXCEPT !.errors = Join(Append(existing_errors, error)),
                       !.status = "error"]]

RECURSIVE SeqOfSet(_)
\* The ids of a set as a sequence in ascending (primary key) order.
SeqOfSet(S) ==
  IF S = {} THEN <<>>
  ELSE LET m == CHOOSE x \in S : \A y \in S : x <= y
       IN <<m>> \o SeqOfSet(S \ {m})

\* InputRecordRepo.get_unprocessed: the rows with processed == False, each
\* rebuilt as InputRecordSchema(**r.__dict__). The schema's errors field is
\* Optional[List[str]] and the column holds a str: a row with an error log
\* fails validation, and the except branch then returns [].
get_unprocessed(rows) ==
  LET un == {i \in DOMAIN rows : ~rows[i].processed}
  IN IF \E i \in un : rows[i].errors # None THEN <<>>
     ELSE [k \in 1..Cardinality(un) |->
             [id |-> SeqOfSet(un)[k], errors |-> rows[SeqOfSet(un)[k]].errors,
              input_file_id |-> rows[SeqOfSet(un)[k]].input_file_id]]

\* InputRecordRepo.get_by_file_id: the first row for that file, or none.
get_by_file_id(rows, file_id) ==
  LET hit == {i \in DOMAIN rows : rows[i].input_file_id = file_id}
  IN IF hit = {} THEN NoId ELSE CHOOSE i \in hit : \A j \in hit : i <= j

\* ------------------------------------------------------- pipeline messages
Digit(i) == <<"0", "1", "2", "3", "4", "5">>[i + 1]
MsgNoDocument == <<"Failed to convert source">>
MsgConversion == <<"Error occurred during conversion">>
MsgChunking == <<"Error during chunking">>
MsgChunk(i) == <<"Error processing chunk", Digit(i)>>

\* The Chunker's emitted sequence of n chunks, and contextualize on one chunk.
Emitted(n) == [k \in 1..n |-> <<"chunk", Digit(k - 1)>>]
contextualize(chunk) == <<"ctx">> \o chunk

\* The rows of S in ascending idx order (order_by(ChunkRecord.idx)).
RECURSIVE SortByIdx(_, _)
SortByIdx(rows, S) ==
  IF S = {} THEN <<>>
  ELSE LET m == CHOOSE x \in S : \A y \in S : rows[x].idx < rows[y].idx
                                     \/ (rows[x].idx = rows[y].idx /\ x <= y)
       IN <<rows[m]>> \o SortByIdx(rows, S \ {m})

\* ChunkRecordRepo.get_by_document_id: the query orders the document's rows by
\* idx; each row is then rebuilt as ChunkRecord(**r.__dict__). r.__dict__
\* carries the ORM's _sa_instance_state entry, which the mapped class's
\* constructor refuses as a keyword (TypeError), and the except branch
\* returns []: the call gives the empty list whether or not rows were found.
get_by_document_id(rows, document_id) ==
  LET results == SortByIdx(rows, {k \in DOMAIN rows : rows[k].document_id = document_id})
  IN IF results = <<>> THEN results ELSE <<>>


\* ---------------------------------------------------------------- pipeline
\* The pipeline is one synchronous process. Each step below ends at a commit
\* of the store or at a call's return, so the states between two commits of
\* one command are states of the model.

\* A return that ends the sweep when the record has failed.
PfrReturn_aborts(file_id, caller, result) ==
  /\ ret' = [op |-> "process_file_record", file_id |-> file_id, result |-> result]
  /\ IF caller = "ppi" /\ result # NoId
     THEN /\ pc' = "ppi_loop"
          /\ ppi' = [ppi EXCEPT !.i = @ + 1, !.processed_count = @ + 1]
     ELSE /\ pc' = "idle"
          /\ ppi' = IF caller = "ppi" THEN ppi ELSE NoFrame

\* process_file_record returns `result` to whoever called it: the CLI, or the
\* loop of process_pending_inputs, which counts it and moves on.
PfrReturn(file_id, caller, result) ==
  /\ ret' = [op |-> "process_file_record", file_id |-> file_id, result |-> result]
  /\ IF caller = "ppi"
     THEN /\ pc' = "ppi_loop"
          /\ ppi' = [ppi EXCEPT !.i = @ + 1,
                                !.processed_count = IF result # NoId THEN @ + 1 ELSE @,
                                !.error_count = IF result = NoId THEN @ + 1 ELSE @]
     ELSE /\ pc' = "idle"
          /\ ppi' = NoFrame

\* process_file_record up to its call of convert_source: the file record is
\* looked up and checked, the input record found by the file id.
PfrEnter(file_id, caller) ==
  /\ pfr' = [file_id |-> file_id, caller |-> caller,
             input_id |-> get_by_file_id(inputs, file_id)]
  /\ IF \/ file_id \notin DOMAIN files
        \/ ~Truthy(files[file_id].markdown)
        \/ files[file_id].size > MAX_PROCESSING_SIZE
     THEN /\ PfrReturn(file_id, caller, NoId)
          /\ cs' = NoFrame
     ELSE /\ pc' = "cs_convert"
          /\ cs' = [caller |-> "pfr", src |-> "file",
                    input_id |-> get_by_file_id(inputs, file_id),
                    doc_id |-> NoId, emitted |-> <<>>, i |-> 0, errors |-> <<>>,
                    outcome |-> <<>>, e |-> 0, result |-> NoId]
          /\ ppi' = IF caller = "ppi" THEN ppi ELSE NoFrame
          /\ ret' = NoFrame

\* convert_source returns `result`: to process_file_record, or to the CLI.
CsReturn(frame, result) ==
  /\ cs' = [frame EXCEPT !.result = result]
  /\ ret' = [op |-> "convert_source", input_id |-> frame.input_id, result |-> result]
  /\ pc' = IF frame.caller = "pfr" THEN "pfr_mark" ELSE "idle"

\* CLI: process-pending. get_unprocessed is read once, at the start.
process_pending_inputs ==
  /\ pc = "idle"
  /\ clock < MaxRuns
  /\ clock' = clock + 1
  /\ LET pending_inputs == get_unprocessed(inputs)
     IN /\ ppi' = [pending |-> pending_inputs, i |-> 1,
                   processed_count |-> 0, error_count |-> 0]
        /\ IF pending_inputs = <<>>
           THEN /\ pc' = "idle"
                /\ ret' = [op |-> "process_pending_inputs", processed |-> 0, errors |-> 0]
           ELSE /\ pc' = "ppi_loop"
                /\ ret' = NoFrame
  /\ pfr' = NoFrame
  /\ cs' = NoFrame
  /\ UNCHANGED <<fs, unwritable, sweeps, scanner, services, rendering, swept, store>>

\* One turn of the loop of process_pending_inputs, or its end.
ppi_next ==
  /\ pc = "ppi_loop"
  /\ IF ppi.i > Len(ppi.pending)
     THEN /\ pc' = "idle"
          /\ ret' = [op |-> "process_pending_inputs",
                     processed |-> ppi.processed_count, errors |-> ppi.error_count]
          /\ UNCHANGED <<ppi, pfr, cs>>
     ELSE IF ppi.pending[ppi.i].input_file_id # NoId
     THEN PfrEnter(ppi.pending[ppi.i].input_file_id, "ppi")
     ELSE /\ ppi' = [ppi EXCEPT !.i = @ + 1, !.error_count = @ + 1]
          /\ ret' = NoFrame
          /\ UNCHANGED <<pc, pfr, cs>>
  /\ UNCHANGED <<fs, unwritable, sweeps, scanner, services, rendering, swept, store, clock>>

\* CLI: process-file FILE_ID, for a known or an unknown id.
process_file_record ==
  /\ pc = "idle"
  /\ clock < MaxRuns
  /\ clock' = clock + 1
  /\ \E file_id \in 1..(Len(files) + 1) : PfrEnter(file_id, "cli")
  /\ UNCHANGED <<fs, unwritable, sweeps, scanner, services, rendering, swept, store>>

\* CLI: convert SOURCE, with no input record to track.
convert_source ==
  /\ pc = "idle"
  /\ clock < MaxRuns
  /\ clock' = clock + 1
  /\ \E src \in {"web"} :
       cs' = [caller |-> "cli", src |-> src, input_id |-> NoId,
              doc_id |-> NoId, emitted |-> <<>>, i |-> 0, errors |-> <<>>,
              outcome |-> <<>>, e |-> 0, result |-> NoId]
  /\ pc' = "cs_convert"
  /\ ret' = NoFrame
  /\ ppi' = NoFrame
  /\ pfr' = NoFrame
  /\ UNCHANGED <<fs, unwritable, sweeps, scanner, services, rendering, swept, store>>

\* DocumentRecordRepo.create of the record convert_source builds.
NewDocumentRecord(frame) ==
  [source |-> frame.src, source_ref |-> frame.input_id, chunks_json |-> None,
   updated_at |-> NoTime]

\* A failed conversion that has saved a DocumentRecord all the same.
ConverterFails_with_document(msg) ==
  /\ inputs' = add_error(inputs, cs.input_id, msg)
  /\ docs' = Append(docs, NewDocumentRecord(cs))
  /\ CsReturn(cs, NoId)

\* convert_source when the converter gives no document, or raises: the error
\* is recorded on the input record if there is one, and None returned.
ConverterFails(msg) ==
  /\ inputs' = add_error(inputs, cs.input_id, msg)
  /\ UNCHANGED docs
  /\ CsReturn(cs, NoId)

\* convert_source, the Document Converter's answer: no document or an
\* exception, or a document: the DocumentRecord is created, then the Chunker
\* runs (it raises, or emits n chunks).
cs_convert ==
  /\ pc = "cs_convert"
  /\ \/ ConverterFails(MsgNoDocument)
     \/ ConverterFails(MsgConversion)
     \/ /\ docs' = Append(docs, NewDocumentRecord(cs))
        /\ \/ /\ cs' = [cs EXCEPT !.doc_id = Len(docs) + 1, !.errors = <<MsgChunking>>,
                                  !.outcome = <<"chunker_raised">>]
              /\ pc' = "cs_errors"
           \/ \E n \in 0..MaxChunks :
                /\ cs' = [cs EXCEPT !.doc_id = Len(docs) + 1, !.emitted = Emitted(n)]
                /\ pc' = IF n = 0 THEN "cs_update" ELSE "cs_chunk"
        /\ ret' = NoFrame
        /\ UNCHANGED inputs
  /\ UNCHANGED <<fs, unwritable, sweeps, scanner, services, rendering, swept, files, chunks, collection, clock, ppi, pfr>>

\* ChunkRecordRepo.create of the record built for chunk i.
NewChunkRecord(doc_id, i, c_txt) ==
  [document_id |-> doc_id, idx |-> i, text_chunk |-> c_txt]

\* The body of the chunk loop for chunk cs.i, under one of its outcomes.
ChunkStep(frame, how) ==
  LET c_txt == contextualize(frame.emitted[frame.i + 1])
      row == NewChunkRecord(frame.doc_id, frame.i, c_txt)
      failed == [frame EXCEPT !.errors = Append(@, MsgChunk(frame.i))]
  IN CASE how = "ok" ->
            [chunks |-> Append(chunks, row),
             collection |-> collection \cup {<<frame.doc_id, frame.i>>},
             frame |-> frame]
       [] how = "embedder_raised" ->
            [chunks |-> chunks, collection |-> collection, frame |-> failed]
       [] how = "collection_raised" ->
            [chunks |-> Append(chunks, row), collection |-> collection, frame |-> failed]

\* "embedder_raised" stands for an exception before the ChunkRecord is
\* created (contextualize or the embedder), "collection_raised" for one after.
ChunkOutcomes == {"ok", "embedder_raised", "collection_raised"}

\* convert_source, one chunk: contextualize, embed, create the ChunkRecord,
\* embed into the collection; an exception anywhere ends this chunk only.
cs_chunk ==
  /\ pc = "cs_chunk"
  /\ \E how \in ChunkOutcomes :
       LET r == ChunkStep(cs, how)
       IN /\ chunks' = r.chunks
          /\ collection' = r.collection
          /\ cs' = [r.frame EXCEPT !.i = @ + 1, !.outcome = Append(@, how)]
  /\ pc' = IF cs.i + 1 < Len(cs.emitted) THEN "cs_chunk" ELSE "cs_update"
  /\ ret' = NoFrame
  /\ UNCHANGED <<fs, unwritable, sweeps, scanner, services, rendering, swept, files, inputs, docs, clock, ppi, pfr>>

\* DocumentRecordRepo.update_chunks with the list built from the chunk
\* iterator the loop has just exhausted: str([]).
update_chunks(rows, doc_id, chunks_json, now) ==
  IF doc_id \notin DOMAIN rows THEN rows
  ELSE [rows EXCEPT ![doc_id] = [@ EXCEPT !.chunks_json = chunks_json, !.updated_at = now]]

AfterChunks(frame) ==
  IF frame.input_id = NoId THEN "cs_return"
  ELSE IF frame.errors # <<>> THEN "cs_errors" ELSE "cs_mark"

cs_update ==
  /\ pc = "cs_update"
  /\ docs' = update_chunks(docs, cs.doc_id, <<"[]">>, clock)
  /\ pc' = AfterChunks(cs)
  /\ ret' = NoFrame
  /\ UNCHANGED <<fs, unwritable, sweeps, scanner, services, rendering, swept, files, inputs, chunks, collection, clock, ppi, pfr, cs>>

\* convert_source, `for error in errors: add_error(...)`: one commit each.
cs_errors ==
  /\ pc = "cs_errors"
  /\ IF cs.input_id = NoId
     THEN /\ pc' = "cs_return"
          /\ UNCHANGED <<inputs, cs>>
     ELSE /\ inputs' = add_error(inputs, cs.input_id, cs.errors[cs.e + 1])
          /\ cs' = [cs EXCEPT !.e = @ + 1]
          /\ pc' = IF cs.e + 1 < Len(cs.errors) THEN "cs_errors" ELSE "cs_mark"
  /\ ret' = NoFrame
  /\ UNCHANGED <<fs, unwritable, sweeps, scanner, services, rendering, swept, files, docs, chunks, collection, clock, ppi, pfr>>

\* convert_source, mark_processed(input_record_id, doc_id), then return doc_id.
cs_mark ==
  /\ pc = "cs_mark"
  /\ inputs' = mark_processed(inputs, cs.input_id, cs.doc_id, clock)
  /\ CsReturn(cs, cs.doc_id)
  /\ UNCHANGED <<fs, unwritable, sweeps, scanner, services, rendering, swept, files, docs, chunks, collection, clock, ppi, pfr>>

\* convert_source without an input record: return doc_id.
cs_return ==
  /\ pc = "cs_return"
  /\ CsReturn(cs, cs.doc_id)
  /\ UNCHANGED <<fs, unwritable, sweeps, scanner, services, rendering, swept, store, clock, ppi, pfr>>

\* process_file_record after convert_source: `if result: mark_processed(...)`,
\* then return the result.
pfr_mark ==
  /\ pc = "pfr_mark"
  /\ inputs' = IF cs.result # NoId
               THEN mark_processed(inputs, pfr.input_id, cs.result, clock)
               ELSE inputs
  /\ PfrReturn(pfr.file_id, pfr.caller, cs.result)
  /\ UNCHANGED <<fs, unwritable, sweeps, scanner, services, rendering, swept, files, docs, chunks, collection, clock, pfr, cs>>

\* No scan has run; the scanned directory is empty and git works in each root.
NoScan == [impl |-> "none", scan_type |-> "none", tracked_only |-> FALSE,
           results |-> <<>>, prev |-> <<>>, again |-> FALSE]

\* No root record yet.
ServicesIdle ==
  /\ records = <<>>
  /\ rendered = {}
  /\ vault = [p \in Paths |-> NoFrame]
  /\ xref = <<>>
  /\ sessions = <<>>
  /\ backend = "postgresql"
  /\ schema = [DB_INIT |-> FALSE, tables |-> {}]

ScannerIdle ==
  /\ tree = [r \in {"r1", "r2"} |-> {}]
  /\ git = [r \in {"r1", "r2"} |-> "ok"]
  /\ scanned = NoScan
  /\ ServicesIdle

EmptyStore ==
  /\ swept = {}
  /\ sweeps = [w \in Workers |-> IdleSweep]
  /\ files = <<>>
  /\ inputs = <<>>
  /\ docs = <<>>
  /\ chunks = <<>>
  /\ collection = {}
  /\ clock = 0
  /\ pc = "idle"
  /\ ppi = NoFrame
  /\ pfr = NoFrame
  /\ cs = NoFrame
  /\ ret = NoFrame

\* File ingestion alone: any tree to start with, every rendering writable or
\* the first repo file's not, and the filesystem changes between sweeps.
InitIngest ==
  /\ fs \in [Paths -> Contents \cup {NoFile}]
  /\ unwritable \in {{}, {RepoFiles[1]}}
  /\ EmptyStore
  /\ ScannerIdle

NextIngest ==
  \/ WriteFile
  \/ process_repo_files
  \/ process_vault_files

SpecIngest == InitIngest /\ [][NextIngest]_vars

\* The tree the pipeline runs start from: a small file and an oversized file
\* in the repository, no note in the vault; every rendering can be written.
InitialTree == [p \in Paths |-> IF p = RepoFiles[1] THEN 2
                                ELSE IF p = RepoFiles[2] THEN 1 ELSE NoFile]

Init ==
  /\ fs = InitialTree
  /\ unwritable = {}
  /\ EmptyStore
  /\ ScannerIdle

\* Ingestion of the repository files found at the start (the vault holds no
\* note), and the pipeline commands.
Next ==
  \/ process_repo_files
  \/ process_pending_inputs
  \/ ppi_next
  \/ process_file_record
  \/ convert_source
  \/ cs_convert
  \/ cs_chunk
  \/ cs_update
  \/ cs_errors
  \/ cs_mark
  \/ cs_return
  \/ pfr_mark

Spec == Init /\ [][Next]_vars

\* ------------------------------------------------ the queue's repository API
\* The repository calls issued directly, in any order, on an empty store:
\* records are created pending, documents are created, and mark_processed and
\* add_error are called with known and unknown ids. `ret` records each call
\* with its arguments and its result.

\* The messages handed to add_error: as the callers build them, never empty,
\* one of them spanning two lines.
Messages == {<<"failed">>, <<"traceback", NL, "detail">>}

\* What every direct call shares: it is one of at most MaxApiOps calls, it
\* advances the time, and it touches neither the files nor the pipeline.
ApiCall ==
  /\ clock < MaxApiOps
  /\ clock' = clock + 1
  /\ UNCHANGED <<fs, unwritable, sweeps, scanner, services, rendering, swept, files, chunks, collection, pc, ppi, pfr, cs>>

\* InputRecordRepo.create of a pending record.
ApiCreateInput ==
  /\ ApiCall
  /\ inputs' = Append(inputs, NewInputRecord("repo", NoId))
  /\ ret' = [op |-> "create", result |-> Len(inputs) + 1]
  /\ UNCHANGED docs

\* DocumentRecordRepo.create.
ApiCreateDocument ==
  /\ ApiCall
  /\ docs' = Append(docs, NewDocumentRecord([src |-> "web", input_id |-> NoId]))
  /\ ret' = [op |-> "create_document", result |-> Len(docs) + 1]
  /\ UNCHANGED inputs

\* InputRecordRepo.mark_processed(id, output_doc_id): the document is one the
\* store holds, or None.
ApiMarkProcessed ==
  /\ ApiCall
  /\ \E id \in 1..(Len(inputs) + 1), doc \in DOMAIN docs \cup {NoId} :
       /\ inputs' = mark_processed(inputs, id, doc, clock + 1)
       /\ ret' = [op |-> "mark_processed", id |-> id, output_doc_id |-> doc,
                  now |-> clock + 1, result |-> get_by_id(inputs, id)]
  /\ UNCHANGED docs

\* InputRecordRepo.add_error(id, message).
ApiAddError ==
  /\ ApiCall
  /\ \E id \in 1..(Len(inputs) + 1), msg \in Messages :
       /\ inputs' = add_error(inputs, id, msg)
       /\ ret' = [op |-> "add_error", id |-> id, error |-> msg,
                  result |-> get_by_id(inputs, id)]
  /\ UNCHANGED docs

InitQueue ==
  /\ fs = InitialTree
  /\ unwritable = {}
  /\ EmptyStore
  /\ ScannerIdle

NextQueue ==
  \/ ApiCreateInput
  \/ ApiCreateDocument
  \/ ApiMarkProcessed
  \/ ApiAddError

SpecQueue == InitQueue /\ [][NextQueue]_vars

\* ------------------------------------------------------------- properties
\* The host is the same for every record, so a (path, host) pair is a path.
RowsAt(fileRows, p) == {i \in DOMAIN fileRows : fileRows[i].path = p}
RowsWithSha(fileRows, sha) == {i \in DOMAIN fileRows : fileRows[i].sha256 = sha}
InputsAt(inputRows, fileRows, p) ==
  {i \in DOMAIN inputRows : inputRows[i].input_file_id \in RowsAt(fileRows, p)}

C2_VersionLineage ==
  \A p \in Paths : \A i \in RowsAt(files, p) :
     files[i].version = Cardinality({j \in RowsAt(files, p) : j <= i})

\* The chunk loop of this call ran over N >= 1 chunks and failed for one.
OneChunkFailed(frame) ==
  /\ frame.emitted # <<>>
  /\ Len(frame.outcome) = Len(frame.emitted)
  /\ Cardinality({k \in DOMAIN frame.outcome : frame.outcome[k] # "ok"}) = 1
FailedChunk(frame) == (CHOOSE k \in DOMAIN frame.outcome : frame.outcome[k] # "ok") - 1
ChunksOf(doc_id) == {k \in DOMAIN chunks : chunks[k].document_id = doc_id}
Logged(errors, msg) ==
  Truthy(errors) /\ \E j \in DOMAIN Split(errors) : Split(errors)[j] = msg

\* C3: when convert_source returns for an input record after the embedding
\* of exactly one chunk k of N failed (embedder or collection), the
\* DocumentRecord exists with exactly N-1 ChunkRecords, the input record is
\* processed with status 'processed' and linked to the document, and its
\* error log holds the error for chunk k.
C3_PartialFailure ==
  (ret.op = "convert_source" /\ cs.input_id # NoId /\ OneChunkFailed(cs)) =>
     /\ cs.doc_id \in DOMAIN docs
     /\ Cardinality(ChunksOf(cs.doc_id)) = Len(cs.emitted) - 1
     /\ inputs[cs.input_id].processed
     /\ inputs[cs.input_id].status = "processed"
     /\ inputs[cs.input_id].output_doc_id = cs.doc_id
     /\ Logged(inputs[cs.input_id].errors, MsgChunk(FailedChunk(cs)))

\* The text of an error log after `msg` is appended to it.
Appended(errors, msg) == IF Truthy(errors) THEN errors \o <<NL>> \o msg ELSE msg

\* C4: when the converter returns no document or raises during convert_source
\* for an input record, the message is appended to the record's errors, its
\* status becomes 'error', its processed flag, processed_at and output_doc_id
\* are not touched (false and unset for a record that was unprocessed), and
\* the call creates no DocumentRecord and no ChunkRecord.
C4_ConversionFailure ==
  [][(pc = "cs_convert" /\ cs.input_id # NoId
        /\ ret'.op = "convert_source" /\ ret'.result = NoId) =>
       LET before == inputs[cs.input_id]
           after == inputs'[cs.input_id]
       IN /\ \E msg \in {MsgNoDocument, MsgConversion} :
               after.errors = Appended(before.errors, msg)
          /\ after.status = "error"
          /\ after.processed = before.processed
          /\ after.processed_at = before.processed_at
          /\ after.output_doc_id = before.output_doc_id
          /\ ~before.processed =>
               (~after.processed /\ after.processed_at = NoTime
                  /\ after.output_doc_id = NoId)
          /\ docs' = docs
          /\ chunks' = chunks]_vars

\* convert_source has just returned None for an unprocessed input record.
C4_Witness ==
  /\ ret.op = "convert_source"
  /\ ret.result = NoId
  /\ ret.input_id # NoId
  /\ inputs[ret.input_id].status = "error"
  /\ ~inputs[ret.input_id].processed
  /\ docs = <<>>

\* C5: the records process_pending_inputs sets out to process are all the
\* records whose processed flag is false when the sweep starts, those with
\* status 'error' and a non-empty error log included.
C5_RetrySweep ==
  [][(pc = "idle" /\ (pc' = "ppi_loop" \/ ret'.op = "process_pending_inputs")) =>
       {ppi'.pending[k].id : k \in DOMAIN ppi'.pending}
          = {i \in DOMAIN inputs : ~inputs[i].processed}]_vars

\* C6: under any sequence of create (pending), mark_processed and add_error
\* calls, every record with processed=true has status 'processed' and a
\* processed_at that is set.
C6_ProcessedImpliesStatus ==
  \A i \in DOMAIN inputs :
     inputs[i].processed =>
        (inputs[i].status = "processed" /\ inputs[i].processed_at # NoTime)

\* C7: mark_processed(id, output_doc_id) on an existing record sets
\* processed=true, processed_at (to the time of the call) and status
\* 'processed', and stores output_doc_id, whichever document of the store it
\* names; on an unknown id no record changes and nothing is returned.
C7_MarkProcessed ==
  [][ret'.op = "mark_processed" =>
       IF ret'.id \in DOMAIN inputs
       THEN /\ inputs'[ret'.id].processed
            /\ inputs'[ret'.id].processed_at = ret'.now
            /\ ret'.now # NoTime
            /\ inputs'[ret'.id].status = "processed"
            /\ ret'.output_doc_id # NoId =>
                 inputs'[ret'.id].output_doc_id = ret'.output_doc_id
            /\ ret'.result = ret'.id
       ELSE /\ inputs' = inputs
            /\ ret'.result = NoId]_vars

\* mark_processed has just linked an existing record, which had an error on
\* it, to a document of the store.
C7_Witness ==
  /\ ret.op = "mark_processed"
  /\ ret.result # NoId
  /\ ret.output_doc_id \in DOMAIN docs
  /\ inputs[ret.id].output_doc_id = ret.output_doc_id
  /\ Truthy(inputs[ret.id].errors)

\* C8: add_error(id, message) on an existing record puts the message after
\* everything the error log already holds, sets status 'error', and changes
\* no other field of the record and no other record.
C8_AddError ==
  [][(ret'.op = "add_error" /\ ret'.id \in DOMAIN inputs) =>
       inputs' = [inputs EXCEPT ![ret'.id] =
                    [@ EXCEPT !.errors = Appended(@, ret'.error),
                              !.status = "error"]]]_vars

\* add_error has just appended to the non-empty log of a processed record,
\* with another record in the store.
C8_Witness ==
  /\ ret.op = "add_error"
  /\ ret.result # NoId
  /\ inputs[ret.id].errors # ret.error
  /\ inputs[ret.id].processed
  /\ Len(inputs) > 1

\* C9: when convert_source returns a document whose Chunker emitted N chunks,
\* the idx values stored for the document are exactly 0..N-1, each once, and
\* get_by_document_id gives the chunks' texts in the order of emission.
C9_ChunkOrdering ==
  (ret.op = "convert_source" /\ ret.result # NoId
      /\ Len(cs.outcome) = Len(cs.emitted)) =>
     LET mine == ChunksOf(cs.doc_id)
         back == get_by_document_id(chunks, cs.doc_id)
     IN /\ {chunks[k].idx : k \in mine} = 0..(Len(cs.emitted) - 1)
        /\ Cardinality(mine) = Len(cs.emitted)
        /\ [k \in DOMAIN back |-> back[k].text_chunk]
             = [k \in DOMAIN cs.emitted |-> contextualize(cs.emitted[k])]

\* C10: in every state of a pipeline run, the states between two commits
\* included, a record with processed=true has an output_doc_id that names a
\* DocumentRecord already in the store.
C10_OutputReference ==
  \A i \in DOMAIN inputs :
     inputs[i].processed =>
        (inputs[i].output_doc_id # NoId /\ inputs[i].output_doc_id \in DOMAIN docs)

\* convert_source has marked the record and returned; process_file_record
\* has not yet marked it again.
C10_Witness ==
  /\ pc = "pfr_mark"
  /\ cs.result # NoId
  /\ inputs[cs.input_id].processed
  /\ inputs[cs.input_id].output_doc_id = cs.doc_id

\* C11: across sweeps of process_pending_inputs and calls of
\* process_file_record, repeated ones and retries included, no two
\* DocumentRecords carry the same non-null source_ref: at most one document is
\* ever created per input record.
C11_AtMostOneDocument ==
  \A i, j \in DOMAIN docs :
     (i # j /\ docs[i].source_ref # NoId) => docs[i].source_ref # docs[j].source_ref

\* ------------------------------------------------------------ batch sweeps
\* The three batch commands alone, over a tree in which one rendering may
\* fail to be written; a sweep that has started keeps taking its steps.
InitBatch ==
  /\ fs = InitialTree
  /\ unwritable \in {{}, {RepoFiles[1]}}
  /\ EmptyStore
  /\ ScannerIdle

NextBatch ==
  \/ process_repo_files
  \/ process_vault_files
  \/ process_pending_inputs
  \/ ppi_next
  \/ cs_convert
  \/ cs_chunk
  \/ cs_update
  \/ cs_errors
  \/ cs_mark
  \/ pfr_mark

Running ==
  \/ ppi_next
  \/ cs_convert
  \/ cs_chunk
  \/ cs_update
  \/ cs_errors
  \/ cs_mark
  \/ pfr_mark

SpecBatch == InitBatch /\ [][NextBatch]_vars /\ WF_vars(Running)

\* A file sweep that has returned has dealt with every file of its list, the
\* ones after a failed one included: each is recorded or counted as an error.
SweepReachedAll(op, list, source_type) ==
  ret'.op = op =>
     /\ \A p \in Range(list) : fs[p] # NoFile => RowsWithSha(files', Sha256(fs[p])) # {}
     /\ ret'.processed + ret'.errors
          = (Len(files') - Len(files))
              + (IF source_type = "vault"
                 THEN Cardinality({k \in DOMAIN list : fs[list[k]] = NoFile}) ELSE 0)
     /\ ret'.processed = Len(inputs') - Len(inputs)

\* The loop of process_pending_inputs takes up the record it stands at, and
\* when a record's pipeline returns, with or without a result, it counts the
\* record and goes on to the next; it ends past the last record only.
PendingLoopGoesOn ==
  /\ (pc = "ppi_loop" /\ ppi.i <= Len(ppi.pending)) =>
        \/ pc' = "cs_convert" /\ pfr'.file_id = ppi.pending[ppi.i].input_file_id
                              /\ pfr'.caller = "ppi" /\ ppi' = ppi
        \/ pc' = "ppi_loop" /\ ppi'.i = ppi.i + 1 /\ ppi'.pending = ppi.pending
                            /\ ppi'.error_count = ppi.error_count + 1
  /\ (pc = "pfr_mark" /\ pfr.caller = "ppi") =>
        /\ pc' = "ppi_loop"
        /\ ppi'.i = ppi.i + 1
        /\ ppi'.pending = ppi.pending
        /\ ppi'.processed_count + ppi'.error_count
             = ppi.processed_count + ppi.error_count + 1
  /\ (pc = "ppi_loop" /\ pc' = "idle") => ppi.i = Len(ppi.pending) + 1

SweepAdvance(w, frame) ==
  sweeps' = [sweeps EXCEPT ![w] =
               [frame EXCEPT !.k = @ + 1,
                             !.c = NoFile,
                             !.pc = IF frame.k < Len(RepoFiles) THEN "check" ELSE "done"]]

\* process_repo_files is started by process w.
sweep_start(w) ==
  /\ sweeps[w].pc = "idle"
  /\ sweeps' = [sweeps EXCEPT ![w] = [@ EXCEPT !.pc = "check", !.k = 1]]
  /\ UNCHANGED <<fs, unwritable, scanner, services, rendering, swept, store, clock, frames>>

\* The file's bytes are read and looked up by their sha256: a missing file
\* and a known digest are skipped.
sweep_check(w) ==
  /\ sweeps[w].pc = "check"
  /\ LET c == fs[RepoFiles[sweeps[w].k]]
     IN IF c = NoFile \/ get_by_sha256(files, Sha256(c)) # NoId
        THEN SweepAdvance(w, sweeps[w])
        ELSE sweeps' = [sweeps EXCEPT ![w] =
                          [@ EXCEPT !.pc = "insert", !.c = c, !.seen = Len(files)]]
  /\ UNCHANGED <<fs, unwritable, scanner, services, rendering, swept, store, clock, frames>>

\* An insert into a table without the unique index on sha256.
sweep_insert_unchecked(w) ==
  /\ sweeps[w].pc = "insert"
  /\ LET p == RepoFiles[sweeps[w].k]
         rec == create_file_record_from_path(files, p, sweeps[w].c, "repo")
         row == [rec EXCEPT !.markdown = generate_markdown_content(rec)]
     IN /\ files' = Append(files, row)
        /\ sweeps' = [sweeps EXCEPT ![w] =
                        [@ EXCEPT !.pc = "render",
                                  !.made = @ \cup {[row |-> row.id, seen |-> sweeps[w].seen]}]]
  /\ UNCHANGED <<fs, unwritable, scanner, services, rendering, swept, inputs, docs, chunks, collection, clock, frames>>

\* FileRecordCRUD.create commits the record built from the bytes read; the
\* unique index on sha256 refuses a digest committed in the meantime, and the
\* sweep's except branch then goes on to the next file.
sweep_insert(w) ==
  /\ sweeps[w].pc = "insert"
  /\ LET p == RepoFiles[sweeps[w].k]
         rec == create_file_record_from_path(files, p, sweeps[w].c, "repo")
         row == [rec EXCEPT !.markdown = generate_markdown_content(rec)]
     IN IF get_by_sha256(files, row.sha256) # NoId
        THEN /\ SweepAdvance(w, sweeps[w])
             /\ UNCHANGED files
        ELSE /\ files' = Append(files, row)
             /\ sweeps' = [sweeps EXCEPT ![w] =
                             [@ EXCEPT !.pc = "render",
                                       !.made = @ \cup {[row |-> row.id, seen |-> sweeps[w].seen]}]]
  /\ UNCHANGED <<fs, unwritable, scanner, services, rendering, swept, inputs, docs, chunks, collection, clock, frames>>

\* The id of the FileRecord the sweep has committed last.
LastMade(frame) ==
  (CHOOSE m \in frame.made : \A o \in frame.made : o.row <= m.row).row

\* The rendering is written into the vault tree and the InputRecord is
\* committed; a failed write ends this file.
sweep_render(w) ==
  /\ sweeps[w].pc = "render"
  /\ IF RepoFiles[sweeps[w].k] \in unwritable
     THEN UNCHANGED <<inputs, vault, xref>>
     ELSE /\ vault' = write_markdown_to_vault(vault, files[LastMade(sweeps[w])], clock)
          /\ xref' = Append(xref, NewDocumentIndex(LastMade(sweeps[w]), clock))
          /\ inputs' = Append(inputs, NewInputRecord("repo", LastMade(sweeps[w])))
  /\ SweepAdvance(w, sweeps[w])
  /\ UNCHANGED <<fs, unwritable, scanner, services, swept, files, docs, chunks, collection, clock, frames>>

\* A writer replaces the bytes of a repository file while the sweeps run.
ConcurrentWrite ==
  /\ \E p \in Range(RepoFiles), c \in Contents :
       /\ fs[p] # NoFile
       /\ fs[p] # c
       /\ fs' = [fs EXCEPT ![p] = c]
  /\ UNCHANGED <<unwritable, scanner, services, rendering, swept, sweeps, store, clock, frames>>

InitConcurrent ==
  /\ fs = InitialTree
  /\ unwritable = {}
  /\ EmptyStore
  /\ ScannerIdle

NextConcurrent ==
  \/ \E w \in Workers : sweep_start(w)
  \/ \E w \in Workers : sweep_check(w)
  \/ \E w \in Workers : sweep_insert(w)
  \/ \E w \in Workers : sweep_render(w)
  \/ ConcurrentWrite

SpecConcurrent == InitConcurrent /\ [][NextConcurrent]_vars

\* Two records were ingested concurrently: by different sweeps, each of which
\* read the store before the other's insert was committed.
Overlapping(m1, m2) == m1.seen < m2.row /\ m2.seen < m1.row

\* C13: two FileRecord rows that two concurrent sweeps created for the same
\* (path, host), each having read the store before the other's insert
\* committed, never carry the same version number.
C13_ConcurrentVersions ==
  \A m1 \in sweeps["w1"].made, m2 \in sweeps["w2"].made :
     (Overlapping(m1, m2) /\ files[m1.row].path = files[m2.row].path
                          /\ files[m1.row].host = files[m2.row].host)
        => files[m1.row].version # files[m2.row].version

\* C14: in every state no two FileRecord rows have the same sha256, and the
\* sha256 of a row that is created differs from the sha256 of every earlier
\* row of the same path.
C14_FingerprintUnique ==
  /\ [](\A i, j \in DOMAIN files : i # j => files[i].sha256 # files[j].sha256)
  /\ [][\A n \in DOMAIN files' \ DOMAIN files :
          \A i \in RowsAt(files, files'[n].path) : files[i].sha256 # files'[n].sha256]_vars

\* A sweep is about to commit a record whose sha256 the other sweep has
\* committed since this one looked it up.
C14_Witness ==
  \E w1, w2 \in Workers :
     /\ w1 # w2
     /\ sweeps[w2].pc = "insert"
     /\ \E m \in sweeps[w1].made :
          /\ files[m.row].sha256 = Sha256(sweeps[w2].c)
          /\ m.row > sweeps[w2].seen

\* The latest FileRecord row of a path, and the rows of a path a step adds.
LatestAt(fileRows, p) == CHOOSE i \in RowsAt(fileRows, p) : \A j \in RowsAt(fileRows, p) : j <= i
Created(p) == RowsAt(files', p) \ RowsAt(files, p)

\* The sweep of list `list` that returns as `op` creates a row for a file of
\* the list exactly when the path has no row yet or the sha256 of its latest
\* row differs from that of the file's bytes.
DecidedByLatest(op, list) ==
  ret'.op = op =>
     \A p \in Range(list) :
        fs[p] # NoFile =>
           (Created(p) # {} <=>
              (RowsAt(files, p) = {}
                 \/ files[LatestAt(files, p)].sha256 # Sha256(fs[p])))

\* C15: whether ingestion creates a FileRecord row for a file depends only on
\* the latest row of the same (path, host): a row is created when there is
\* none, and when the latest one's sha256 differs from the fresh one; rows of
\* other paths and older versions play no part.
C15_VersionDecision ==
  [][/\ DecidedByLatest("process_repo_files", RepoFiles)
     /\ DecidedByLatest("process_vault_files", VaultFiles)]_vars

\* The text str([chunk.model_dump_json(), ...]) of the first n emitted chunks,
\* each carrying its contextualized text, in emission order.
RECURSIVE SerializedChunks(_, _)
SerializedChunks(emitted, n) ==
  IF n = 0 THEN <<>>
  ELSE SerializedChunks(emitted, n - 1)
         \o (IF n = 1 THEN <<>> ELSE <<",">>)
         \o <<"{">> \o contextualize(emitted[n]) \o <<"}">>

\* convert_source has attempted every chunk of the N >= 1 its Chunker emitted
\* and has written the chunk list back.
AllChunksAttempted ==
  /\ cs # NoFrame
  /\ cs.emitted # <<>>
  /\ cs.i = Len(cs.emitted)
  /\ pc \notin {"cs_chunk", "cs_update"}

\* C16: once convert_source has attempted all N >= 1 chunks of a document,
\* the DocumentRecord's chunks_json holds the serialization of all N chunks
\* in emission order and its updated_at is set.
C16_ChunkListWriteBack ==
  AllChunksAttempted =>
     /\ docs[cs.doc_id].chunks_json
          = <<"[">> \o SerializedChunks(cs.emitted, Len(cs.emitted)) \o <<"]">>
     /\ docs[cs.doc_id].updated_at # NoTime

\* This step is the loop of process_pending_inputs counting the record it
\* stands at as errored.
CountedAsError ==
  /\ \/ pc = "ppi_loop" /\ ppi.i <= Len(ppi.pending)
     \/ pc = "pfr_mark" /\ pfr.caller = "ppi"
  /\ pc' = "ppi_loop"
  /\ ppi'.error_count = ppi.error_count + 1

\* C17: every record a sweep of process_pending_inputs counts as errored
\* (no file record, no markdown, a file above the maximum size, a failed
\* conversion) has by then an error message in its errors field that the
\* sweep has added to what the field held when the record was fetched.
C17_ErrorTrail ==
  [][CountedAsError =>
       LET fetched == ppi.pending[ppi.i]
       IN /\ Truthy(inputs'[fetched.id].errors)
          /\ inputs'[fetched.id].errors # fetched.errors]_vars

(***************************************************************************)
(* Directory scanning (file_scanner.py).                                    *)
(*                                                                          *)
(* A path is a sequence of segments, a segment a pair <<stem, suffix>>      *)
(* (Path.stem and Path.suffix of that part; a dot-file such as .DS_Store    *)
(* has the whole name as stem and no suffix). A path string, as as_posix()  *)
(* renders it, is the sequence of the stems and suffixes with "/" between   *)
(* the segments.                                                            *)
(***************************************************************************)

\* app_config.ignore_parts and app_config.ignore_extensions: one ignored
\* directory name, one ignored suffix and one ignored file name.
IgnoreParts == {"node_modules"}
IgnoreExtensions == {".pyc", ".DS_Store"}

D(name) == <<name, "">>

\* The scanned directory: base/r1 and base/r2, each with a .git directory
\* (holding a config file) and an .obsidian directory.
BaseParts == <<D("code")>>
RootSeq == <<"r1", "r2">>
Roots == {"r1", "r2"}

FDsStore == <<D(".DS_Store")>>
FGitConfig == <<D(".git"), D("config")>>
FA == <<<<"a", ".py">>>>
FB == <<<<"b", ".pyc">>>>
FN == <<<<"n", ".md">>>>
FC == <<D("node_modules"), <<"c", ".py">>>>

\* The candidate files of a root, in ascending order of their path strings
\* (".DS_Store" < ".git/config" < "a.py" < "b.pyc" < "n.md" <
\* "node_modules/c.py").
PosixOrder == <<FDsStore, FGitConfig, FA, FB, FN, FC>>
WorkFiles == {FDsStore, FA, FB, FN, FC}

\* Path.as_posix
RECURSIVE as_posix(_)
as_posix(p) ==
  IF p = <<>> THEN <<>>
  ELSE LET seg == IF p[1][2] = "" THEN <<p[1][1]>> ELSE p[1]
       IN IF Len(p) = 1 THEN seg ELSE seg \o <<"/">> \o as_posix(Tail(p))

\* Path(s): the segments of a path string.
RECURSIVE PathFrom(_, _)
PathFrom(s, cur) ==
  LET seg == IF Len(cur) = 1 THEN D(cur[1]) ELSE cur
  IN IF s = <<>> THEN (IF cur = <<>> THEN <<>> ELSE <<seg>>)
     ELSE IF Head(s) = "/" THEN <<seg>> \o PathFrom(Tail(s), <<>>)
     ELSE PathFrom(Tail(s), Append(cur, Head(s)))

PathOf(s) == PathFrom(s, <<>>)

\* Path.name is in a set of names: a name with a suffix is stem + suffix and
\* none of the configured names has one.
NameIn(seg, names) == seg[2] = "" /\ seg[1] \in names

path_has_ignored_part(item, parts) ==
  \E k \in DOMAIN item : NameIn(item[k], parts)

ignore_list == IgnoreParts \cup {".git"}

\* iter_files_from_pl_path(root): the files under base/root as absolute
\* paths, in the order the walk meets them.
FilesUnder(root) == tree[root] \cup {FGitConfig}

iter_files_from_pl_path(root) ==
  LET here == SelectSeq(PosixOrder, LAMBDA f : f \in FilesUnder(root))
  IN [k \in DOMAIN here |-> BaseParts \o <<D(root)>> \o here[k]]

\* f.relative_to(base): drops the base's segments.
relative_to(p, base) == SubSeq(p, Len(base) + 1, Len(p))

RootPath(root) == BaseParts \o <<D(root)>>

\* The order of path strings (code points, as Python's str comparison): a
\* root-relative string by its place in PosixOrder, a base-relative string
\* ("r1/a.py") by its root first.
IndexIn(seq, x) == CHOOSE k \in DOMAIN seq : seq[k] = x

StrKey(s) ==
  LET p == PathOf(s)
  IN IF p[1] \in {D(r) : r \in Roots}
     THEN IndexIn(RootSeq, p[1][1]) * (Len(PosixOrder) + 1) + IndexIn(PosixOrder, Tail(p))
     ELSE IndexIn(PosixOrder, p)

RECURSIVE InsertSorted(_, _)
InsertSorted(l, s) ==
  IF l = <<>> THEN <<s>>
  ELSE IF StrKey(s) < StrKey(Head(l)) THEN <<s>> \o l
  ELSE <<Head(l)>> \o InsertSorted(Tail(l), s)

\* sorted(l)
RECURSIVE sorted(_)
sorted(l) ==
  IF l = <<>> THEN <<>>
  ELSE InsertSorted(sorted(SubSeq(l, 1, Len(l) - 1)), l[Len(l)])

\* list(files) of a set of strings: the iteration order of a set follows the
\* strings' hashes, which differ from one interpreter run to the next
\* (hash randomisation). Two seeds: one enumerates in descending string
\* order, the other starts in the middle.
HashSeeds == {"seed_a", "seed_b"}

HashKey(s, seed) ==
  IF seed = "seed_a" THEN 0 - StrKey(s)
  ELSE (((StrKey(s) + 2) % 3) * 100) + StrKey(s)

RECURSIVE list_of(_, _)
list_of(S, seed) ==
  IF S = {} THEN <<>>
  ELSE LET m == CHOOSE x \in S : \A y \in S : HashKey(x, seed) <= HashKey(y, seed)
       IN <<m>> \o list_of(S \ {m}, seed)

\* How `git -C root ls-files` ends in a root: with a listing, with
\* FileNotFoundError (no git executable) or with CalledProcessError (check=True
\* and a non-zero exit, as in a directory that is not a repository).
GitOutcomes == {"ok", "tool_missing", "nonzero_exit"}

\* `git -C root ls-files`: the files of the work tree, none from .git.
ls_files(root) ==
  LET here == SelectSeq(PosixOrder, LAMBDA f : f \in tree[root])
  IN [k \in DOMAIN here |-> as_posix(here[k])]

\* The full walk of a root as root-relative path strings.
walk_paths(root) ==
  LET all == iter_files_from_pl_path(root)
  IN [k \in DOMAIN all |-> as_posix(relative_to(all[k], RootPath(root)))]

\* A fallback that gives up on the root instead of walking it.
fallback_walk_nothing(root) == <<>>

\* The except branch of the ls-files call (lines 92-97).
fallback_walk(root) == walk_paths(root)

\* Lines 82-112: the candidate paths of one root.
file_paths(root, scan_type, tracked_only) ==
  IF scan_type = "repo" /\ tracked_only
  THEN IF git[root] = "ok" THEN ls_files(root) ELSE fallback_walk(root)
  ELSE IF scan_type = "vault"
  THEN LET md == SelectSeq(iter_files_from_pl_path(root),
                           LAMBDA f : f[Len(f)][2] = ".md"
                                      /\ ~path_has_ignored_part(f, ignore_list))
       IN [k \in DOMAIN md |-> as_posix(relative_to(md[k], RootPath(root)))]
  ELSE walk_paths(root)

\* Lines 114-122: the common filter.
Kept(root, rel_path) ==
  LET p == RootPath(root) \o PathOf(rel_path)
  IN ~ ( \/ path_has_ignored_part(p, ignore_list)
         \/ p[Len(p)][2] \in IgnoreExtensions
         \/ NameIn(p[Len(p)], IgnoreExtensions) )

\* _scan_directory for the repo and vault kinds: one ScanResult per root that
\* holds the marker directory, in the order rglob meets the markers.
MarkerResults(scan_type, tracked_only, seed) ==
  [k \in DOMAIN RootSeq |->
     LET root == RootSeq[k]
         found == {s \in Range(file_paths(root, scan_type, tracked_only)) :
                     Kept(root, s)}
     IN [root |-> root, files |-> sorted(list_of(found, seed))]]

\* _scan_directory for the list kind (lines 142-166): one ScanResult for the
\* base, its files relative to the base.
ListResults(seed) ==
  LET items == iter_files_from_pl_path(RootSeq[1]) \o iter_files_from_pl_path(RootSeq[2])
      found == {as_posix(relative_to(items[k], BaseParts)) :
                  k \in {j \in DOMAIN items : ~path_has_ignored_part(items[j], ignore_list)}}
  IN <<[root |-> "code", files |-> sorted(list_of(found, seed))]>>

_scan_directory(scan_type, tracked_only, seed) ==
  IF scan_type = "list" THEN ListResults(seed)
  ELSE MarkerResults(scan_type, tracked_only, seed)

\* app_config.vault_folder of the top-level module's configuration.
VaultFolder == "md_vault"

\* The top-level file_scanner.py: _scan_core for the repo kind (tracked_only is
\* forced to True) and the vault kind. It returns list(files) as the set
\* iterates, and only the ScanResult of the last root it met.
CoreFiles(root, scan_type) ==
  IF scan_type = "repo"
  THEN LET lines == IF git[root] = "ok" THEN ls_files(root) ELSE walk_paths(root)
       IN {s \in Range(lines) : Kept(root, s)}
  ELSE {as_posix(relative_to(f, RootPath(root))) :
          f \in {g \in Range(iter_files_from_pl_path(root)) :
                   g[Len(g)][2] = ".md" /\ D(VaultFolder) \notin Range(g)}}

_scan_core(scan_type, seed) ==
  LET root == RootSeq[Len(RootSeq)]
  IN <<[root |-> root, files |-> list_of(CoreFiles(root, scan_type), seed)]>>

\* One scan: its ScanResults, and those of the scan before it when that one
\* had the same arguments.
Scan(impl, scan_type, tracked_only, results) ==
  LET same == /\ scanned.impl = impl
              /\ scanned.scan_type = scan_type
              /\ scanned.tracked_only = tracked_only
  IN /\ scanned' = [impl |-> impl, scan_type |-> scan_type,
                    tracked_only |-> tracked_only, results |-> results,
                    prev |-> IF same THEN scanned.results ELSE <<>>,
                    again |-> same]
     /\ UNCHANGED <<tree, git, services, rendering, fs, unwritable, swept, sweeps, store, clock, frames>>

scan_repos ==
  \E seed \in HashSeeds :
    Scan("_scan_directory", "repo", TRUE, _scan_directory("repo", TRUE, seed))

scan_repos_untracked ==
  \E seed \in HashSeeds :
    Scan("_scan_directory", "repo", FALSE, _scan_directory("repo", FALSE, seed))

scan_vaults ==
  \E seed \in HashSeeds :
    Scan("_scan_directory", "vault", FALSE, _scan_directory("vault", FALSE, seed))

scan_list ==
  \E seed \in HashSeeds :
    Scan("_scan_directory", "list", FALSE, _scan_directory("list", FALSE, seed))

scan_core_repos ==
  \E seed \in HashSeeds :
    Scan("_scan_core", "repo", TRUE, _scan_core("repo", seed))

scan_core_vaults ==
  \E seed \in HashSeeds :
    Scan("_scan_core", "vault", FALSE, _scan_core("vault", seed))

\* The work trees of the second root: empty, two kept files, every candidate.
OtherTrees == {{}, {FA, FN}, WorkFiles}

\* Scanning alone: any work tree in the first root, one of three in the
\* second, git working or failing in each, and the tree left unchanged
\* between the scans.
InitScan ==
  /\ fs = InitialTree
  /\ unwritable = {}
  /\ EmptyStore
  /\ tree \in {t \in [Roots -> SUBSET WorkFiles] : t[RootSeq[2]] \in OtherTrees}
  /\ git \in [Roots -> GitOutcomes]
  /\ scanned = NoScan
  /\ ServicesIdle

NextScan ==
  \/ scan_repos
  \/ scan_repos_untracked
  \/ scan_vaults
  \/ scan_list
  \/ scan_core_repos
  \/ scan_core_vaults

SpecScan == InitScan /\ [][NextScan]_vars

AllFiles == {scanned.results[k].files : k \in DOMAIN scanned.results}

Ascending(l) == \A i, j \in DOMAIN l : i < j => StrKey(l[i]) < StrKey(l[j])

\* C18: for every scan kind, a scan of the unchanged tree that repeats the
\* scan before it returns the same files sequences, and every files sequence
\* is in strictly ascending order (sorted, no path twice).
C18_IdempotentRescan ==
  /\ scanned.again => scanned.results = scanned.prev
  /\ \A l \in AllFiles : Ascending(l)

\* The same of the packaged scanner alone.
C18_PackagedScanner ==
  scanned.impl = "_scan_directory" =>
    /\ scanned.again => scanned.results = scanned.prev
    /\ \A l \in AllFiles : Ascending(l)

C18_RepeatedScan ==
  /\ scanned.impl = "_scan_directory"
  /\ scanned.again
  /\ \E l \in AllFiles : Len(l) >= 3

Filtered(s) ==
  LET p == PathOf(s)
  IN /\ ~path_has_ignored_part(p, ignore_list)
     /\ p[Len(p)][2] \notin IgnoreExtensions
     /\ ~NameIn(p[Len(p)], IgnoreExtensions)

\* C19: for every scan kind of _scan_directory (repo from ls-files, repo from
\* the fallback or the full walk, vault, list), no path in a ScanResult's
\* files has a segment that is in the ignore list or is ".git", and none has
\* a suffix or a file name that is in the ignore-extensions set.
C19_ScanFiltering ==
  scanned.impl = "_scan_directory" =>
    \A l \in AllFiles : \A k \in DOMAIN l : Filtered(l[k])

\* The same of the repo and vault kinds alone.
C19_MarkerScansFiltered ==
  (scanned.impl = "_scan_directory" /\ scanned.scan_type # "list") =>
    \A l \in AllFiles : \A k \in DOMAIN l : Filtered(l[k])

\* The path strings a full walk of a root leaves after the ignore filtering.
WalkedAndFiltered(root) ==
  {as_posix(f) : f \in {g \in FilesUnder(root) : Filtered(as_posix(g))}}

\* C20: a tracked-only repo scan returns one ScanResult for every discovered
\* root, whether or not `git ls-files` failed in any of them, and the files
\* of a root where it failed are those of a full recursive walk after the
\* same ignore filtering.
C20_RepoScanFallback ==
  (scanned.impl = "_scan_directory" /\ scanned.scan_type = "repo" /\ scanned.tracked_only) =>
    /\ Len(scanned.results) = Len(RootSeq)
    /\ \A k \in DOMAIN RootSeq :
         /\ scanned.results[k].root = RootSeq[k]
         /\ git[RootSeq[k]] # "ok" =>
              /\ Range(scanned.results[k].files) = WalkedAndFiltered(RootSeq[k])
              /\ Ascending(scanned.results[k].files)

\* A tracked-only repo scan in which git was missing for one root with files
\* to keep and files to drop, and the other root was listed by git.
C20_Witness ==
  /\ scanned.impl = "_scan_directory" /\ scanned.scan_type = "repo" /\ scanned.tracked_only
  /\ git[RootSeq[1]] = "tool_missing"
  /\ git[RootSeq[2]] = "ok"
  /\ tree[RootSeq[1]] = WorkFiles
  /\ scanned.results[1].files = <<as_posix(FA), as_posix(FN)>>
  /\ Len(scanned.results[2].files) = 2

(***************************************************************************)
(* The scan commands (file_scanner.py, lines 170-311): a scan, then          *)
(* store_scan_results, then convert_scan_results_to_records.                *)
(***************************************************************************)

\* How many scan commands a run of the model issues.
MaxCommands == 2

\* ScanResult_Controller.create for every result.
store_scan_results(rows, results, now) ==
  rows \o [k \in DOMAIN results |->
             [table |-> "dl_scan_results", root_path |-> results[k].root,
              files |-> results[k].files, file_count |-> Len(results[k].files),
              indexed_at |-> now]]

\* convert_scan_results_to_records: RepoRecordRepo.create or
\* VaultRecordCRUD.create for every result, by the scan type; neither looks
\* for a row of the same root first, and neither table has a unique column
\* besides the id.
convert_scan_results_to_records(rows, results, scan_type, now) ==
  IF scan_type \notin {"repo", "vault"} THEN rows
  ELSE rows \o [k \in DOMAIN results |->
                  [table |-> IF scan_type = "repo" THEN "dl_repo" ELSE "dl_vault",
                   root_path |-> results[k].root,
                   files |-> results[k].files,
                   file_count |-> Len(results[k].files),
                   indexed_at |-> now]]

AfterScan(scan_type, tracked_only, results) ==
  LET same == /\ scanned.impl = "_scan_directory"
              /\ scanned.scan_type = scan_type
              /\ scanned.tracked_only = tracked_only
  IN [impl |-> "_scan_directory", scan_type |-> scan_type,
      tracked_only |-> tracked_only, results |-> results,
      prev |-> IF same THEN scanned.results ELSE <<>>, again |-> same]

\* scan_repos_command, scan_vaults_command and list_files_command.
ScanCommand(scan_type, tracked_only) ==
  /\ clock < MaxCommands
  /\ \E seed \in HashSeeds :
       LET results == _scan_directory(scan_type, tracked_only, seed)
           now == clock + 1
       IN /\ scanned' = AfterScan(scan_type, tracked_only, results)
          /\ records' = IF results = <<>> THEN records
                        ELSE convert_scan_results_to_records(
                               store_scan_results(records, results, now),
                               results, scan_type, now)
          /\ clock' = now
  /\ UNCHANGED <<tree, git, rendered, sessions, backend, schema, rendering, fs, unwritable, swept, sweeps, store, frames>>

scan_repos_command == ScanCommand("repo", TRUE)

scan_vaults_command == ScanCommand("vault", FALSE)

list_files_command == ScanCommand("list", FALSE)

\* A file appears in or disappears from a root between two commands.
ChangeTree ==
  /\ \E r \in Roots, f \in {FA, FN} :
       tree' = [tree EXCEPT ![r] = IF f \in @ THEN @ \ {f} ELSE @ \cup {f}]
  /\ UNCHANGED <<git, scanned, services, rendering, fs, unwritable, swept, sweeps, store, clock, frames>>

InitRecords ==
  /\ fs = InitialTree
  /\ unwritable = {}
  /\ EmptyStore
  /\ tree \in [Roots -> {{}, {FA, FN}}]
  /\ git = [r \in Roots |-> "ok"]
  /\ scanned = NoScan
  /\ ServicesIdle

NextRecords ==
  \/ scan_repos_command
  \/ scan_vaults_command
  \/ list_files_command
  \/ ChangeTree

SpecRecords == InitRecords /\ [][NextRecords]_vars

RootRows(table, root_path) ==
  {k \in DOMAIN records : records[k].table = table /\ records[k].root_path = root_path}

\* C21: after any sequence of repo and vault scan commands the store holds at
\* most one dl_repo row and at most one dl_vault row per root path.
C21_OneRecordPerRoot ==
  \A table \in {"dl_repo", "dl_vault"} : \A r \in Roots :
    Cardinality(RootRows(table, r)) <= 1

(***************************************************************************)
(* Rendering again: generate_markdown_content applied to a stored record at *)
(* a later time and in a later state of the store.                          *)
(***************************************************************************)

\* How far the clock runs while records are rendered again.
MaxTicks == 2

\* FileRecordCRUD.to_schema of row i, then generate_markdown_content.
Render ==
  /\ \E i \in DOMAIN files :
       rendered' = rendered \cup {<<i, clock, generate_markdown_content(files[i])>>}
  /\ UNCHANGED <<fs, unwritable, swept, sweeps, scanner, records, sessions, backend, schema, rendering, store, clock, frames>>

\* Time passes.
Tick ==
  /\ clock < MaxTicks
  /\ clock' = clock + 1
  /\ UNCHANGED <<fs, unwritable, swept, sweeps, scanner, services, rendering, store, frames>>

InitRender ==
  /\ fs \in [Paths -> Contents \cup {NoFile}]
  /\ unwritable = {}
  /\ EmptyStore
  /\ ScannerIdle

NextRender ==
  \/ process_repo_files
  \/ process_vault_files
  \/ Render
  \/ Tick

SpecRender == InitRender /\ [][NextRender]_vars

save_markdown_to_vault ==
  /\ pc = "idle"
  /\ \E i \in DOMAIN files :
       /\ files[i].path \notin unwritable
       /\ vault' = write_markdown_to_vault(vault, files[i], clock)
  /\ UNCHANGED <<xref, fs, unwritable, swept, sweeps, scanner, services, store, clock, frames>>

InitVault ==
  /\ fs \in [Paths -> Contents \cup {NoFile}]
  /\ unwritable \in {{}, {RepoFiles[1]}}
  /\ EmptyStore
  /\ ScannerIdle

NextVault ==
  \/ WriteFile
  \/ process_repo_files
  \/ process_vault_files
  \/ save_markdown_to_vault
  \/ Tick

SpecVault == InitVault /\ [][NextVault]_vars

\* The rows that record the rendering of the bytes with this digest: a
\* dl_document_index row of a file record with the digest, or an md_xref row
\* keyed by it.
XrefRows(sha) ==
  {k \in DOMAIN xref :
     \/ xref[k].table = "dl_document_index" /\ files[xref[k].key].sha256 = sha
     \/ xref[k].table = "md_xref" /\ xref[k].key = sha}

\* The digests whose rendering has been written into the vault tree. A file
\* record has an InputRecord exactly when its rendering was written.
RenderedShas ==
  {files[inputs[k].input_file_id].sha256 : k \in DOMAIN inputs}

\* C23: every rendered sha256 has exactly one cross-reference row, and no
\* rendering in the vault tree was written after the last_rendered of its row.
C23_RenderAuditTrail ==
  /\ \A sha \in RenderedShas : Cardinality(XrefRows(sha)) = 1
  /\ \A p \in Paths : vault[p] # NoFrame =>
       \A k \in XrefRows(vault[p].sha256) : xref[k].last_rendered >= vault[p].written

(***************************************************************************)
(* Session selection (db/__init__.py, get_session).                         *)
(***************************************************************************)

\* How many get_session calls a run of the model makes.
MaxCalls == 3

\* What a session factory does when called: it returns a Session object, it
\* returns None, or it raises.
PyNone == "None"
RemoteOutcomes ==
  {[kind |-> "returns", value |-> "remote_session"],
   [kind |-> "returns", value |-> PyNone],
   [kind |-> "raises", value |-> "RuntimeError"]}
LocalOutcomes ==
  {[kind |-> "returns", value |-> "local_session"],
   [kind |-> "raises", value |-> "OperationalError"]}

\* bool(x) of a factory's return value: a Session object is truthy, None is
\* not.
IsTruthy(x) == x # PyNone

\* The call of get_session_local in the except branch: its return value is
\* get_session's, and what it raises leaves get_session.
FallBack(local) ==
  [local_called |-> TRUE, kind |-> local.kind, value |-> local.value]

\* A get_session that asks the local factory first.
get_session_local_first(remote, local) == FallBack(local)

\* A get_session without the try block.
get_session_uncaught(remote, local) ==
  IF remote.kind = "raises"
  THEN [local_called |-> FALSE, kind |-> "raises", value |-> remote.value]
  ELSE IF IsTruthy(remote.value)
  THEN [local_called |-> FALSE, kind |-> "returns", value |-> remote.value]
  ELSE [local_called |-> FALSE, kind |-> "returns", value |-> PyNone]

\* A get_session that also falls back when the remote factory returns None.
get_session_or_local(remote, local) ==
  IF remote.kind = "returns" /\ IsTruthy(remote.value)
  THEN [local_called |-> FALSE, kind |-> "returns", value |-> remote.value]
  ELSE FallBack(local)

\* get_session (lines 117-124): the remote session if the factory returned a
\* truthy value; the local factory's result if the remote factory raised;
\* otherwise the function falls off its end and returns None.
get_session(remote, local) ==
  IF remote.kind = "raises" THEN FallBack(local)
  ELSE IF IsTruthy(remote.value)
  THEN [local_called |-> FALSE, kind |-> "returns", value |-> remote.value]
  ELSE [local_called |-> FALSE, kind |-> "returns", value |-> PyNone]

\* One call of get_session with the factories behaving as drawn.
GetSession ==
  /\ Len(sessions) < MaxCalls
  /\ \E remote \in RemoteOutcomes, local \in LocalOutcomes :
       sessions' = Append(sessions, [remote |-> remote, local |-> local,
                                     out |-> get_session(remote, local)])
  /\ UNCHANGED <<fs, unwritable, swept, sweeps, scanner, records, rendered, backend, schema, rendering, store, clock, frames>>

InitSession ==
  /\ fs = InitialTree
  /\ unwritable = {}
  /\ EmptyStore
  /\ ScannerIdle

NextSession == GetSession

SpecSession == InitSession /\ [][NextSession]_vars

Calls == {sessions[k] : k \in DOMAIN sessions}

\* C24: whenever get_session_remote returns a session object, get_session
\* returns that object and get_session_local is not called.
C24_PrefersRemote ==
  \A c \in Calls :
    (c.remote.kind = "returns" /\ c.remote.value # PyNone) =>
      /\ c.out.kind = "returns"
      /\ c.out.value = c.remote.value
      /\ ~c.out.local_called

C24_Witness ==
  \E c \in Calls :
    /\ c.remote = [kind |-> "returns", value |-> "remote_session"]
    /\ c.local.kind = "returns"
    /\ c.out.value = "remote_session"

\* C25: whenever get_session_remote raises, the exception does not leave
\* get_session; get_session_local is called and get_session ends as that call
\* ends, returning what it returned.
C25_FallsBackToLocal ==
  \A c \in Calls :
    c.remote.kind = "raises" =>
      /\ c.out.local_called
      /\ c.out.kind = c.local.kind
      /\ c.out.value = c.local.value
      /\ ~(c.out.kind = "raises" /\ c.out.value = c.remote.value)

C25_Witness ==
  \E c \in Calls :
    /\ c.remote.kind = "raises"
    /\ c.local = [kind |-> "returns", value |-> "local_session"]
    /\ c.out = [local_called |-> TRUE, kind |-> "returns", value |-> "local_session"]

C27_QueueEntryPerFile ==
  \A i \in DOMAIN files :
    Cardinality({k \in DOMAIN inputs : inputs[k].input_file_id = i}) = 1

\* InputRecordRepo.to_schema, the errors field: the stored text split at the
\* newlines, or None (here the empty list) when the column is None or empty.
to_schema_errors(row) == IF Truthy(row.errors) THEN Split(row.errors) ELSE <<>>

\* C28: read back through to_schema, the error list after add_error(id, m) is
\* the list before it with m appended as one entry, and mark_processed leaves
\* the list as it was; so after add_error of m1..mk the list is [m1..mk].
C28_ErrorLogRoundTrip ==
  [][/\ (ret'.op = "add_error" /\ ret'.result # NoId) =>
          to_schema_errors(inputs'[ret'.id]) =
            Append(to_schema_errors(inputs[ret'.id]), ret'.error)
     /\ (ret'.op = "mark_processed" /\ ret'.result # NoId) =>
          to_schema_errors(inputs'[ret'.id]) = to_schema_errors(inputs[ret'.id])
    ]_vars

(***************************************************************************)
(* Documents and their chunks through the repositories                      *)
(* (document_record.py, chunk_record.py).                                   *)
(***************************************************************************)

\* The databases a session can be bound to: the remote PostgreSQL one, which
\* enforces the foreign key dl_chunks.document_id -> dl_documents.id, and the
\* local SQLite file, which does not (no PRAGMA foreign_keys is issued).
Backends == {"postgresql", "sqlite"}
EnforcesForeignKeys == backend = "postgresql"

\* The place a deleted row leaves in the table; its id is not used again.
DeletedRow == [deleted |-> TRUE]

DocExists(rows, id) == id \in DOMAIN rows /\ rows[id] # DeletedRow

ChunksOfDocument(rows, id) == {k \in DOMAIN rows : rows[k].document_id = id}

\* What every repository call here shares.
OwnershipCall ==
  /\ clock < MaxApiOps
  /\ clock' = clock + 1
  /\ UNCHANGED <<fs, unwritable, sweeps, scanner, services, rendering, swept, files, inputs, collection, pc, ppi, pfr, cs>>

\* DocumentRecordRepo.create.
DocumentCreate ==
  /\ OwnershipCall
  /\ docs' = Append(docs, NewDocumentRecord([src |-> "web", input_id |-> NoId]))
  /\ ret' = [op |-> "create_document", result |-> Len(docs) + 1]
  /\ UNCHANGED chunks

\* ChunkRecordRepo.create for any document id: the commit fails with an
\* IntegrityError where the foreign key is enforced and no such document
\* exists.
ChunkCreate ==
  /\ OwnershipCall
  /\ \E d \in 1..(Len(docs) + 1), i \in 0..(MaxChunks - 1) :
       IF EnforcesForeignKeys /\ ~DocExists(docs, d)
       THEN /\ ret' = [op |-> "create_chunk", document_id |-> d, raised |-> TRUE]
            /\ UNCHANGED chunks
       ELSE /\ chunks' = Append(chunks, NewChunkRecord(d, i, <<"text">>))
            /\ ret' = [op |-> "create_chunk", document_id |-> d, raised |-> FALSE]
  /\ UNCHANGED docs

\* DocumentRecordRepo.delete (lines 283-300): the row is deleted and the
\* deletion committed; no chunk is touched. Where the foreign key is enforced
\* the commit of a document that still has chunks raises IntegrityError.
delete(docRows, chunkRows, doc_id) ==
  IF ~DocExists(docRows, doc_id)
  THEN [docs |-> docRows, chunks |-> chunkRows, result |-> FALSE, raised |-> FALSE]
  ELSE IF EnforcesForeignKeys /\ ChunksOfDocument(chunkRows, doc_id) # {}
  THEN [docs |-> docRows, chunks |-> chunkRows, result |-> FALSE, raised |-> TRUE]
  ELSE [docs |-> [docRows EXCEPT ![doc_id] = DeletedRow], chunks |-> chunkRows,
        result |-> TRUE, raised |-> FALSE]

DocumentDelete ==
  /\ OwnershipCall
  /\ \E d \in 1..(Len(docs) + 1) :
       LET out == delete(docs, chunks, d)
       IN /\ docs' = out.docs
          /\ chunks' = out.chunks
          /\ ret' = [op |-> "delete_document", doc_id |-> d,
                     result |-> out.result, raised |-> out.raised]

\* ChunkRecordRepo.delete_by_document_id.
ChunkDeleteByDocument ==
  /\ OwnershipCall
  /\ \E d \in 1..(Len(docs) + 1) :
       /\ chunks' = SelectSeq(chunks, LAMBDA c : c.document_id # d)
       /\ ret' = [op |-> "delete_by_document_id", document_id |-> d,
                  result |-> Cardinality(ChunksOfDocument(chunks, d))]
  /\ UNCHANGED docs

InitOwnership ==
  /\ fs = InitialTree
  /\ unwritable = {}
  /\ EmptyStore
  /\ tree = [r \in Roots |-> {}]
  /\ git = [r \in Roots |-> "ok"]
  /\ scanned = NoScan
  /\ records = <<>>
  /\ rendered = {}
  /\ vault = [p \in Paths |-> NoFrame]
  /\ xref = <<>>
  /\ sessions = <<>>
  /\ backend \in Backends
  /\ schema = [DB_INIT |-> TRUE, tables |-> {backend}]

NextOwnership ==
  \/ DocumentCreate
  \/ ChunkCreate
  \/ DocumentDelete
  \/ ChunkDeleteByDocument

SpecOwnership == InitOwnership /\ [][NextOwnership]_vars

\* C29: every ChunkRecord's document_id refers to an existing DocumentRecord,
\* and once DocumentRecordRepo.delete(doc_id) has returned true no ChunkRecord
\* with that document_id remains.
C29_ChunkOwnership ==
  /\ \A k \in DOMAIN chunks : DocExists(docs, chunks[k].document_id)
  /\ (ret.op = "delete_document" /\ ret.result) =>
       ChunksOfDocument(chunks, ret.doc_id) = {}

\* The same where the foreign key is enforced.
C29_EnforcedOwnership ==
  EnforcesForeignKeys =>
    /\ \A k \in DOMAIN chunks : DocExists(docs, chunks[k].document_id)
    /\ (ret.op = "delete_document" /\ ret.result) =>
         ChunksOfDocument(chunks, ret.doc_id) = {}

(***************************************************************************)
(* Creating the tables (db/__init__.py; the legacy db/__init__.py has the   *)
(* same _init_db and create_models).                                        *)
(***************************************************************************)

MaxInits == 3   \* calls that create tables in one process

\* The databases init_db_command can be pointed at.
RemoteUri == "remote"
LocalUri == "local"
TestUri == "test"
Uris == {RemoteUri, LocalUri, TestUri}

\* What _init_db hands back: a (success, message) pair, or None when the
\* function falls off its end.
Pair(success, msg) == [kind |-> "tuple", success |-> success, msg |-> msg]
NoneResult == [kind |-> PyNone]

\* drop_models: deletes rows of a table named interface; no dl_ table is
\* dropped, and _init_db swallows whatever it raises.
drop_models(sch, uri) == sch

\* create_models(uri): create_all either works (ok), and then the flag is set,
\* or raises, and then the exception's text is returned.
create_models(sch, uri, ok) ==
  IF ok
  THEN [schema |-> [DB_INIT |-> TRUE, tables |-> sch.tables \cup {uri}],
        result |-> Pair(TRUE, "Database models created successfully.")]
  ELSE [schema |-> sch, result |-> Pair(FALSE, "error")]

\* An _init_db that keeps one flag for each database.
_init_db_per_uri(sch, uri, force, ok) ==
  IF uri \notin sch.tables \/ force
  THEN create_models(IF force THEN drop_models(sch, uri) ELSE sch, uri, ok)
  ELSE [schema |-> sch, result |-> NoneResult]

\* _init_db(uri, force) (lines 75-89).
_init_db(sch, uri, force, ok) ==
  IF ~sch.DB_INIT \/ force
  THEN LET out == create_models(IF force THEN drop_models(sch, uri) ELSE sch, uri, ok)
       IN [schema |-> IF out.result.success
                      THEN [out.schema EXCEPT !.DB_INIT = TRUE]
                      ELSE out.schema,
           result |-> out.result]
  ELSE [schema |-> sch, result |-> NoneResult]

\* One call as the process saw it.
CallOf(fn, sch, uri, force, out) ==
  [fn |-> fn, uri |-> uri, force |-> force,
   flag_before |-> sch.DB_INIT, tables_before |-> sch.tables,
   result |-> out.result,
   flag_after |-> out.schema.DB_INIT, tables_after |-> out.schema.tables]

SchemaCall ==
  /\ clock < MaxInits
  /\ clock' = clock + 1
  /\ UNCHANGED <<fs, unwritable, swept, sweeps, scanner, records, rendered, sessions, backend, rendering, store, pc, ppi, pfr, cs>>

InitDb ==
  /\ SchemaCall
  /\ \E uri \in Uris, force \in BOOLEAN, ok \in BOOLEAN :
       LET out == _init_db(schema, uri, force, ok)
       IN /\ schema' = out.schema
          /\ ret' = [op |-> "_init_db",
                     calls |-> <<CallOf("_init_db", schema, uri, force, out)>>,
                     echoed |-> <<>>]

CreateModels ==
  /\ SchemaCall
  /\ \E uri \in Uris, ok \in BOOLEAN :
       LET out == create_models(schema, uri, ok)
       IN /\ schema' = out.schema
          /\ ret' = [op |-> "create_models",
                     calls |-> <<CallOf("create_models", schema, uri, FALSE, out)>>,
                     echoed |-> <<>>]

\* One block of init_db_command: the pair is unpacked, which raises TypeError
\* on None; the except branch echoes the error.
Echo(result) ==
  IF result = NoneResult THEN "error: cannot unpack"
  ELSE IF result.success THEN "initialized" ELSE "error"

CommandStep(st, wanted, uri, force, ok) ==
  IF ~wanted THEN st
  ELSE LET out == _init_db(st.schema, uri, force, ok)
       IN [schema |-> out.schema,
           calls |-> Append(st.calls, CallOf("_init_db", st.schema, uri, force, out)),
           echoed |-> Append(st.echoed, Echo(out.result))]

\* init_db_command(remote, local, test, force) (lines 139-192): remote, then
\* local, then test; the test database's file is removed first and its
\* creation is always forced.
init_db_command ==
  /\ SchemaCall
  /\ \E remote \in BOOLEAN, local \in BOOLEAN, test \in BOOLEAN, force \in BOOLEAN,
        okR \in BOOLEAN, okL \in BOOLEAN, okT \in BOOLEAN :
       LET s0 == [schema |-> schema, calls |-> <<>>, echoed |-> <<>>]
           s1 == CommandStep(s0, remote, RemoteUri, force, okR)
           s2 == CommandStep(s1, local, LocalUri, force, okL)
           un == IF test THEN [s2 EXCEPT !.schema.tables = @ \ {TestUri}] ELSE s2
           s3 == CommandStep(un, test, TestUri, TRUE, okT)
       IN /\ schema' = s3.schema
          /\ ret' = [op |-> "init_db_command", calls |-> s3.calls, echoed |-> s3.echoed]

InitSchema ==
  /\ fs = InitialTree
  /\ unwritable = {}
  /\ EmptyStore
  /\ ScannerIdle

NextSchema ==
  \/ InitDb
  \/ CreateModels
  \/ init_db_command

SpecSchema == InitSchema /\ [][NextSchema]_vars

\* The table-creating calls of the last operation.
LastCalls ==
  IF "calls" \in DOMAIN ret THEN {ret.calls[k] : k \in DOMAIN ret.calls} ELSE {}

\* C30: DB_INIT is one flag for all database URIs: with the flag set, an
\* _init_db(uri, force=False) call creates no tables for any uri and returns
\* None; _init_db runs creation with the flag set only under force=True; and
\* the flag, set by any successful _init_db or create_models, never goes back
\* to false.
C30_OneFlagForAllUris ==
  /\ [](\A c \in LastCalls :
          /\ (c.fn = "_init_db" /\ c.flag_before /\ ~c.force) =>
               (c.result = NoneResult /\ c.tables_after = c.tables_before)
          /\ (c.fn = "_init_db" /\ c.flag_before /\ c.result # NoneResult) => c.force
          /\ (c.result # NoneResult /\ c.result.success) => c.flag_after
          /\ c.flag_before => c.flag_after)
  /\ [][schema.DB_INIT => schema'.DB_INIT]_vars

\* The flag was set by creating one database's tables, and an unforced
\* _init_db for a database that has no tables returned None.
C30_Witness ==
  \E c \in LastCalls :
    /\ c.fn = "_init_db"
    /\ c.flag_before
    /\ ~c.force
    /\ c.uri \notin c.tables_before
    /\ c.result = NoneResult
    /\ c.uri \notin schema.tables
====
